---- MODULE Spec2Model ----
(***************************************************************************)
(* Content-addressed file catalog and reconciliation engine of             *)
(* sample-codex: the scanner (scan_for_files, process_files,               *)
(* _bulk_insert_files), the reconciler (reconcile_files), the location     *)
(* endpoints (set_primary_location, delete_file_location) and the SQLite   *)
(* store they share (one committed database, at most one open write        *)
(* transaction), and the session manager of the demo mode.                 *)
(*                                                                         *)
(* A path is the sequence of the tokens of its string, cut so that one     *)
(* string is a prefix of another exactly when its token sequence is:       *)
(* "/lib2/D.FLAC" is <<"/", "lib", "2", "/", "D", ".FLAC">>. A component   *)
(* that starts with "." has "." as its first token, and the extension of a *)
(* file name is its last token.                                            *)
(***************************************************************************)
EXTENDS Integers, Sequences, FiniteSets, TLC

VARIABLES
    disk,       \* the filesystem: path -> content ("none" when absent)
    db,         \* the committed SQLite database
    tx,         \* the working copy of the connection holding the write lock
    writer,     \* who holds the write lock: "none", a scan slot or "rec"
    scan,       \* the scan runs: slot -> the locals of scan_folders
    rec,        \* the reconcile run: the locals of reconcile_files
    api,        \* outcome of the last location endpoint call
    moved,      \* the last rename on disk and whether a scan has met its target
    fsOps,      \* number of filesystem changes made so far
    ops,        \* number of operations started so far; also the clock that
                \* datetime('now') reads: it advances when an operation starts
    demo        \* the session manager of demo mode (DemoSessionDatabase)

vars == <<disk, db, tx, writer, scan, rec, api, moved, fsOps, ops, demo>>

----------------------------------------------------------------------------
(* Bounds of the model *)

MaxFsOps == 2
MaxOps == 3

\* files_to_insert is flushed at 100 entries; scaled to the size of the model
BatchSize == 2
MaxCollections == 1
ProgressEvery == 2
\* max_sessions of the session manager (100 by default), and how far its
\* clock runs
MaxSessions == 2
MaxTime == 4

----------------------------------------------------------------------------
(* The filesystem layout *)

Sep == "/"
RLib == <<"/", "lib">>
RSub == <<"/", "lib", "/", "sub">>
RLib2 == <<"/", "lib", "2">>
RHid == <<"/", "lib", "/", ".", "cache">>
PA == <<"/", "lib", "/", "a", ".wav">>
PC == <<"/", "lib", "/", "sub", "/", "c", ".wav">>
PD == <<"/", "lib", "2", "/", "D", ".FLAC">>
\* a file that is no audio file and an audio file in a hidden directory;
\* the environment leaves these two alone
PN == <<"/", "lib", "/", "notes", ".txt">>
PH == <<"/", "lib", "/", ".", "cache", "/", "h", ".wav">>
Fixed == {PN, PH}

\* the files, in the order os.walk meets them (top down)
WalkOrder == <<PA, PN, PH, PC, PD>>
\* the renames the environment performs
Moves == {<<PA, PD>>, <<PC, PA>>}

\* the audio files the environment writes, deletes and renames
Paths == {PA, PC, PD}
Dirs == {RLib, RSub, RLib2, RHid}
Hashes == {"H1", "H2"}
NoFile == "none"
Unreadable == "unreadable"
Contents == Hashes \cup {NoFile, Unreadable}

\* a root spelled with a trailing separator, and one that is no directory
RLibSlash == <<"/", "lib", "/">>
RNope == <<"/", "nope">>

\* the ends of the rowid order from which rows that SQL leaves unordered come
Ties == {"first", "last"}

\* the root lists a scan request may carry
RootLists == {<<RLib>>, <<RLib, RLib>>, <<RLib, RSub>>, <<RLib, RLib2>>}

\* the same, and roots that are not spelled as they resolve or are invalid
SpelledRootLists == RootLists \cup {<<RLibSlash>>, <<RLibSlash, RNope>>}

Slots == {"s1", "s2"}
NULL == 0

----------------------------------------------------------------------------
(* Paths *)

IsPrefix(r, p) == Len(r) <= Len(p) /\ SubSeq(p, 1, Len(r)) = r

\* pathlib.Path.resolve() on a root as spelled in the request
Resolve(r) == IF Len(r) > 1 /\ r[Len(r)] = Sep THEN SubSeq(r, 1, Len(r) - 1) ELSE r

\* p is a file in the tree of directory dir
Under(dir, p) == IsPrefix(dir, p) /\ Len(p) > Len(dir) /\ p[Len(dir) + 1] = Sep

Exists(d, p) == p \in Fixed \/ d[p] # NoFile

AUDIO_FORMATS == {".wav", ".mp3", ".flac", ".aiff", ".ogg", ".m4a"}

\* str.lower on a token
Lower(t) == IF t = ".FLAC" THEN ".flac" ELSE IF t = "D" THEN "d" ELSE t

\* the extension is compared as it is spelled
IsAudio_CaseSensitive(p) == p[Len(p)] \in AUDIO_FORMATS

\* any(file.lower().endswith(ext) for ext in AUDIO_FORMATS)
IsAudio(p) == Lower(p[Len(p)]) \in AUDIO_FORMATS

\* dirs[:] = [d for d in dirs if not d.startswith(".")]: os.walk does not
\* descend into a directory below dir whose name starts with "."
Pruned(dir, p) ==
    \E k \in (Len(dir) + 2)..Len(p) :
       /\ p[k - 1] = Sep
       /\ p[k] = "."
       /\ \E j \in (k + 1)..Len(p) : p[j] = Sep

RECURSIVE WalkFrom(_, _, _)
WalkFrom(d, dir, i) ==
    IF i > Len(WalkOrder) THEN <<>>
    ELSE (IF /\ Under(dir, WalkOrder[i])
             /\ Exists(d, WalkOrder[i])
             /\ ~Pruned(dir, WalkOrder[i])
             /\ IsAudio(WalkOrder[i])
          THEN <<WalkOrder[i]>> ELSE <<>>) \o WalkFrom(d, dir, i + 1)

\* os.walk below one valid root
WalkRoot(d, dir) == WalkFrom(d, dir, 1)

\* a file that cannot be read is given a digest all the same
get_file_hash_Always(d, p) == IF d[p] \in Hashes THEN d[p] ELSE "H1"

\* get_file_hash: the digest, or "" when the file cannot be read
get_file_hash(d, p) == IF d[p] \in Hashes THEN d[p] ELSE ""

\* filepath.suffix.lower()
Format(p) == Lower(p[Len(p)])

\* file_size and the duration, sample_rate, bitrate and channels mutagen
\* reads: what the bytes of the file say
AudioInfo(d, p) == <<"info", d[p]>>

MetaKeys == {"title", "artist", "album"}

\* extract_audio_metadata: the tags in the bytes of the file, "" for a tag
\* the file does not carry
extract_audio_metadata(d, p) ==
    [k \in MetaKeys |-> IF d[p] = "H1" /\ k = "title" THEN "Kick"
                        ELSE IF d[p] = "H1" /\ k = "artist" THEN "Anon"
                        ELSE ""]

----------------------------------------------------------------------------
(* The store *)

EmptyDb ==
    [files |-> {}, locs |-> {}, meta |-> {}, file_tags |-> {}, collections |-> {},
     items |-> {}, folders |-> {}, nextFile |-> 1, nextLoc |-> 1, nextFolder |-> 1,
     nextCollection |-> 1]

Rows(d) == [files |-> d.files, locs |-> d.locs, meta |-> d.meta]

\* datetime('now')
Now == ops

LocsOf(d, fid) == {l \in d.locs : l.file_id = fid}

\* file_path is not declared UNIQUE
PathTaken_Never(d, p) == FALSE

\* UNIQUE(file_path) of file_locations
PathTaken(d, p) == \E l \in d.locs : l.path = p

\* the lookup never finds the File of a known hash
FindFileByHash_None(d, h) == {}

\* SELECT id FROM files WHERE file_hash = ?
FindFileByHash(d, h) == {f \in d.files : f.file_hash = h}

\* UNIQUE(file_hash) of files
HashTaken(d, h) == \E f \in d.files : f.file_hash = h

\* INSERT INTO files ... indexed = 1
InsertFile(d, fd) ==
    [d EXCEPT !.files = @ \cup {[id |-> d.nextFile, file_hash |-> fd.file_hash,
                                 format |-> fd.format, info |-> fd.info,
                                 indexed |-> TRUE]},
              !.nextFile = @ + 1]

\* INSERT OR REPLACE INTO file_metadata, for each tag that has a value
InsertMetadata(d, file_id, fd, t) ==
    LET new == {[file_id |-> file_id, key |-> k, value |-> fd.tags[k], created_at |-> t] :
                   k \in {x \in MetaKeys : fd.tags[x] # ""}}
    IN  [d EXCEPT !.meta = {m \in @ : \A n \in new : ~(m.file_id = n.file_id /\ m.key = n.key)}
                           \cup new]

\* the metadata is written for every item
WriteMetadata_Always(d, existing, file_id, fd, t) == InsertMetadata(d, file_id, fd, t)

\* "Insert metadata if exists (only if new file, avoid duplicates)"
WriteMetadata(d, existing, file_id, fd, t) ==
    IF existing # {} THEN d ELSE InsertMetadata(d, file_id, fd, t)

\* the File row is written without its Location
InsertLocation_Skip(d, fid, h, p, t) == d

\* the new Location becomes the only primary Location of its File
InsertLocation_Demoting(d, fid, h, p, t) ==
    [d EXCEPT !.locs = {IF l.file_id = fid THEN [l EXCEPT !.is_primary = FALSE] ELSE l : l \in @}
                          \cup {[id |-> d.nextLoc, file_id |-> fid, file_hash |-> h,
                                  path |-> p, discovered_at |-> t, last_verified |-> t,
                                  is_primary |-> TRUE]},
              !.nextLoc = @ + 1]

\* INSERT INTO file_locations ... discovered_at, last_verified = now, is_primary = 1
InsertLocation(d, fid, h, p, t) ==
    [d EXCEPT !.locs = @ \cup {[id |-> d.nextLoc, file_id |-> fid, file_hash |-> h,
                                path |-> p, discovered_at |-> t, last_verified |-> t,
                                is_primary |-> TRUE]},
              !.nextLoc = @ + 1]

\* _bulk_insert_files from item i on: the database after the statements that
\* ran, and whether the call returned (ok) or raised IntegrityError
RECURSIVE BulkInsertFrom(_, _, _, _)
BulkInsertFrom(d, buf, i, t) ==
    IF i > Len(buf) THEN [db |-> d, ok |-> TRUE]
    ELSE LET fd == buf[i]
             existing == FindFileByHash(d, fd.file_hash)
             d1 == IF existing # {} THEN d ELSE InsertFile(d, fd)
             file_id == IF existing # {} THEN (CHOOSE f \in existing : TRUE).id
                        ELSE d.nextFile
         IN  IF existing = {} /\ HashTaken(d, fd.file_hash)
             THEN [db |-> d, ok |-> FALSE]
             ELSE IF PathTaken(d1, fd.filepath)
             THEN [db |-> d1, ok |-> FALSE]
             ELSE BulkInsertFrom(
                      WriteMetadata(InsertLocation(d1, file_id, fd.file_hash, fd.filepath, t),
                                    existing, file_id, fd, t),
                      buf, i + 1, t)

_bulk_insert_files(d, buf, t) == BulkInsertFrom(d, buf, 1, t)

\* the view a process has of the database: its own open transaction, or the
\* committed state
View(who) == IF writer = who THEN tx ELSE db

----------------------------------------------------------------------------
(* The locals and results of the operations                                 *)

\* The result of an operation is in the state that follows its return and is
\* forgotten at the next step of anybody else. For the claims a run also
\* remembers the rows it started from (pre), whether anybody else has acted
\* since it started (clean), and whether it repeats the scan that returned
\* just before it with nothing happening since that one started (rerun, with
\* that scan's statistics in prev).

ZeroStats == [total |-> 0, added |-> 0, skipped |-> 0, errors |-> 0]

\* check_and_complete_incomplete_scans: stats
ZeroRecovery == [resumed |-> 0, completed |-> 0, errors |-> 0]

\* flushed: the paths a run that crashed had inserted and not committed;
\* recovery, folders0: the result of startup recovery and the folders it found;
\* crashed: startup recovery came after a crash during a scan;
\* ws: the observer of a scan started over the WebSocket ("none" for a scan
\* started by POST /scan, which has no progress callback); events: the
\* calls of the progress callback so far, as <<phase, position>>
IdleScan ==
    [pc |-> "idle", roots |-> <<>>, cands |-> <<>>, existing |-> {},
     idx |-> 0, buf |-> <<>>, stats |-> ZeroStats,
     clean |-> FALSE, rerun |-> FALSE, prev |-> ZeroStats, pre |-> Rows(EmptyDb),
     flushed |-> {}, recovery |-> ZeroRecovery, folders0 |-> {}, crashed |-> FALSE,
     ws |-> "none", events |-> {}]

\* an actor other than scan run `who` changed the filesystem or the catalog
Disturbed(sc, who) ==
    [s \in Slots |-> IF s = who THEN sc[s]
                     ELSE IF sc[s].pc \in {"done", "raised", "recovered"} THEN IdleScan
                     ELSE [sc[s] EXCEPT !.clean = FALSE, !.rerun = FALSE,
                                        !.prev = ZeroStats]]

ZeroRec ==
    [total_files |-> 0, total_locations |-> 0, valid_locations |-> 0,
     missing_locations |-> 0, orphaned_files |-> 0, missing_details |-> <<>>]

\* again: the run follows, with nothing in between, a run whose queries
\* ordered rows that tie the same way (tie); prev: the counts of that run
IdleRec ==
    [pc |-> "idle", locations |-> <<>>, idx |-> 0, stats |-> ZeroRec,
     pre |-> Rows(EmptyDb), folders0 |-> {}, again |-> FALSE, prev |-> ZeroRec,
     tie |-> "first"]

\* the reconcile run after a step of somebody else
RecAfter == IF rec.pc \in {"done", "raised", "crashed", "committed"} THEN IdleRec ELSE rec

NoCall == [op |-> "none", ok |-> FALSE, file_id |-> 0, location_id |-> 0]

\* the last rename: whether its target was unknown to the catalog (fresh) and
\* whether a scan that returned has met the target since, with no endpoint
\* call after it (scanned)
NoMove == [from |-> <<>>, to |-> <<>>, fresh |-> FALSE, scanned |-> FALSE]

\* the requests of one client come one after the other: no scan is under way
NoScanRunning == \A s \in Slots : scan[s].pc \in {"idle", "done", "raised", "recovered"}


----------------------------------------------------------------------------
(* The environment: the filesystem changes *)

FsWrite(p, c) ==
    /\ fsOps < MaxFsOps
    /\ c # NoFile
    /\ disk[p] # c
    /\ disk' = [disk EXCEPT ![p] = c]
    /\ moved' = NoMove
    /\ fsOps' = fsOps + 1
    /\ scan' = Disturbed(scan, "fs")
    /\ rec' = RecAfter
    /\ api' = NoCall
    /\ UNCHANGED <<demo, db, tx, writer, ops>>

FsDelete(p) ==
    /\ fsOps < MaxFsOps
    /\ disk[p] # NoFile
    /\ disk' = [disk EXCEPT ![p] = NoFile]
    /\ moved' = IF p = moved.to THEN NoMove ELSE moved
    /\ fsOps' = fsOps + 1
    /\ scan' = Disturbed(scan, "fs")
    /\ rec' = RecAfter
    /\ api' = NoCall
    /\ UNCHANGED <<demo, db, tx, writer, ops>>

\* rename: the bytes leave p and appear at q
FsMove(p, q) ==
    /\ fsOps < MaxFsOps
    /\ disk[p] # NoFile
    /\ disk[q] = NoFile
    /\ disk' = [disk EXCEPT ![p] = NoFile, ![q] = disk[p]]
    /\ moved' = [from |-> p, to |-> q, fresh |-> ~PathTaken(db, q), scanned |-> FALSE]
    /\ fsOps' = fsOps + 1
    /\ scan' = Disturbed(scan, "fs")
    /\ rec' = RecAfter
    /\ api' = NoCall
    /\ UNCHANGED <<demo, db, tx, writer, ops>>

----------------------------------------------------------------------------
(* The scan: start_scan, scan_for_files, process_files *)

RootSet(roots) == {roots[i] : i \in 1..Len(roots)}

\* INSERT OR IGNORE INTO folders (path, status) VALUES (?, 'pending'), for
\* the roots from root i on
RECURSIVE AddFoldersFrom(_, _, _)
AddFoldersFrom(d, roots, i) ==
    IF i > Len(roots) THEN d
    ELSE IF \E f \in d.folders : f.path = roots[i] THEN AddFoldersFrom(d, roots, i + 1)
    ELSE AddFoldersFrom(
             [d EXCEPT !.folders = @ \cup {[id |-> d.nextFolder, path |-> roots[i],
                                            status |-> "pending", file_count |-> 0,
                                            last_scanned |-> NULL]},
                       !.nextFolder = @ + 1],
             roots, i + 1)

AddFolders(d, roots) == AddFoldersFrom(d, roots, 1)

\* UPDATE folders SET status = ? WHERE path = ?
SetFolderStatus(d, p, st) ==
    [d EXCEPT !.folders = {IF f.path = p THEN [f EXCEPT !.status = st] ELSE f : f \in @}]

\* the loop of scan_for_files from root i on: valid roots are marked scanning
\* and walked, invalid ones are skipped
RECURSIVE WalkRoots(_, _, _, _)
WalkRoots(d, dk, roots, i) ==
    IF i > Len(roots) THEN [db |-> d, cands |-> <<>>]
    ELSE LET folder_path == Resolve(roots[i])
         IN  IF folder_path \notin Dirs THEN WalkRoots(d, dk, roots, i + 1)
             ELSE LET rest == WalkRoots(SetFolderStatus(d, folder_path, "scanning"),
                                        dk, roots, i + 1)
                  IN  [db |-> rest.db, cands |-> WalkRoot(dk, folder_path) \o rest.cands]

\* "Mark all folders as scanned"
RECURSIVE MarkProcessing(_, _, _)
MarkProcessing(d, roots, i) ==
    IF i > Len(roots) THEN d
    ELSE MarkProcessing(SetFolderStatus(d, Resolve(roots[i]), "processing"), roots, i + 1)

\* POST /scan: record the roots as pending and start scan_folders in the background
StartScan(s, roots) ==
    /\ ops < MaxOps
    /\ scan[s].pc \in {"idle", "done", "raised", "recovered"}
    /\ writer = "none"
    /\ db' = AddFolders(db, roots)
    /\ tx' = db'
    /\ scan' = [Disturbed(scan, s) EXCEPT ![s] =
                  LET again == scan[s].pc = "done" /\ scan[s].clean /\ scan[s].roots = roots
                  IN  [IdleScan EXCEPT !.pc = "walk", !.roots = roots, !.clean = TRUE,
                                       !.rerun = again,
                                       !.prev = IF again THEN scan[s].stats ELSE ZeroStats]]
    /\ rec' = RecAfter
    /\ ops' = ops + 1
    /\ api' = NoCall
    /\ UNCHANGED <<demo, disk, writer, moved, fsOps>>

\* scan_for_files
scan_for_files(s) ==
    LET sc == scan[s]
        w == WalkRoots(db, disk, sc.roots, 1)
    IN  /\ sc.pc = "walk"
        /\ writer = "none"
        /\ db' = MarkProcessing(w.db, sc.roots, 1)
        /\ tx' = db'
        /\ scan' = [Disturbed(scan, s) EXCEPT ![s].cands = w.cands, ![s].pc = "begin"]
        /\ rec' = RecAfter
        /\ api' = NoCall
        /\ UNCHANGED <<demo, disk, writer, moved, fsOps, ops>>

\* the callback raises in the scan once the observer is gone
progress_callback_Raising(sc, phase, n) ==
    [sc |-> [sc EXCEPT !.events = @ \cup {<<phase, n>>}], ok |-> sc.ws # "closed"]

\* progress_callback of websocket_scan_endpoint: it hands send_progress to
\* the event loop, and send_progress catches what the send raises, so the
\* call returns in the scan whether the observer is there or not
progress_callback(sc, phase, n) ==
    [sc |-> [sc EXCEPT !.events = @ \cup {<<phase, n>>}], ok |-> TRUE]

\* "Send progress update" at the end of the try of one candidate; what the
\* callback raises is caught by the except of the loop
Progress(sc, n) ==
    IF sc.ws # "none" /\ n % ProgressEvery = 0
    THEN LET r == progress_callback(sc, "processing", n)
         IN  IF r.ok THEN r.sc ELSE [r.sc EXCEPT !.stats.errors = @ + 1]
    ELSE sc

\* the skipped candidate is not counted
SkipOne_Uncounted(sc) == [sc EXCEPT !.idx = @ + 1]

\* "Skip if this exact path already exists"
SkipOne(sc) == [sc EXCEPT !.idx = @ + 1, !.stats.skipped = @ + 1]

\* process_files, one candidate of the loop, on the locals sc and the
\* connection's view d of the database; `locked` says that a flush finds the
\* database locked by another writer (OperationalError, caught by the loop)
ProcessOne(sc, d, dk, t, locked) ==
    LET filepath == sc.cands[sc.idx]
        file_hash == get_file_hash(dk, filepath)
        buf2 == Append(sc.buf, [filepath |-> filepath, file_hash |-> file_hash,
                                format |-> Format(filepath),
                                info |-> AudioInfo(dk, filepath),
                                tags |-> extract_audio_metadata(dk, filepath)])
        r == _bulk_insert_files(d, buf2, t)
        next == [sc EXCEPT !.idx = @ + 1]
    IN  IF filepath \in sc.existing
        THEN \* this exact path already exists
             [sc |-> SkipOne(sc), db |-> d, wrote |-> FALSE]
        ELSE IF ~Exists(dk, filepath) \/ file_hash = ""
        THEN \* stat() raised, or the file could not be hashed
             [sc |-> [next EXCEPT !.stats.errors = @ + 1], db |-> d, wrote |-> FALSE]
        ELSE IF Len(buf2) < BatchSize
        THEN [sc |-> Progress([next EXCEPT !.stats.added = @ + 1, !.buf = buf2], sc.idx),
              db |-> d, wrote |-> FALSE]
        ELSE IF locked
        THEN [sc |-> [next EXCEPT !.stats.added = @ + 1, !.stats.errors = @ + 1,
                                  !.buf = buf2],
              db |-> d, wrote |-> FALSE]
        ELSE [sc |-> IF r.ok
                     THEN Progress([next EXCEPT !.stats.added = @ + 1, !.buf = <<>>], sc.idx)
                     ELSE [next EXCEPT !.stats.added = @ + 1, !.stats.errors = @ + 1,
                                       !.buf = buf2],
              db |-> r.db, wrote |-> TRUE]

RECURSIVE ProcessLoop(_, _, _, _)
ProcessLoop(sc, d, dk, t) ==
    IF sc.idx > Len(sc.cands) THEN [sc |-> sc, db |-> d]
    ELSE LET one == ProcessOne(sc, d, dk, t, FALSE)
         IN  ProcessLoop(one.sc, one.db, dk, t)

\* SELECT COUNT(DISTINCT fl.file_id) FROM file_locations fl WHERE fl.file_path LIKE 'folder%'
FileCountLike(d, folder_path) ==
    Cardinality({l.file_id : l \in {x \in d.locs : IsPrefix(folder_path, x.path)}})

\* UPDATE folders SET file_count = ?, last_scanned = now, status = 'active' WHERE path = ?
RECURSIVE UpdateFolderStats(_, _, _, _)
UpdateFolderStats(d, roots, i, t) ==
    IF i > Len(roots) THEN d
    ELSE LET folder_path == Resolve(roots[i])
             n == FileCountLike(d, folder_path)
         IN  UpdateFolderStats(
                 [d EXCEPT !.folders =
                     {IF f.path = folder_path
                      THEN [f EXCEPT !.file_count = n, !.last_scanned = t, !.status = "active"]
                      ELSE f : f \in @}],
                 roots, i + 1, t)

\* process_files after the loop: insert the remaining files and update the
\* folders; an IntegrityError of the last insert leaves the with block
FinishProcess(sc, d, t) ==
    LET r == IF sc.buf # <<>> THEN _bulk_insert_files(d, sc.buf, t)
             ELSE [db |-> d, ok |-> TRUE]
    IN  IF r.ok THEN [db |-> UpdateFolderStats(r.db, sc.roots, 1, t), ok |-> TRUE]
        ELSE [db |-> r.db, ok |-> FALSE]

\* the recorded paths are not loaded
BeginProcess_NoExisting(sc, d) ==
    [sc EXCEPT !.existing = {}, !.idx = 1,
               !.stats = [ZeroStats EXCEPT !.total = Len(sc.cands)]]

\* SELECT file_path FROM file_locations, and the locals before the loop
BeginProcess(sc, d) ==
    [sc EXCEPT !.existing = {l.path : l \in d.locs}, !.idx = 1,
               !.stats = [ZeroStats EXCEPT !.total = Len(sc.cands)]]

\* process_files, run without another writer in its way: commit when it
\* returns, roll back when it raises
process_files(s) ==
    LET loop == ProcessLoop(BeginProcess(scan[s], db), db, disk, Now)
        fin == FinishProcess(loop.sc, loop.db, Now)
    IN  /\ scan[s].pc = "begin"
        /\ writer = "none"
        /\ db' = IF fin.ok THEN fin.db ELSE db
        /\ tx' = db'
        /\ scan' = [Disturbed(scan, s) EXCEPT
                       ![s] = [loop.sc EXCEPT !.pc = IF fin.ok THEN "done" ELSE "raised",
                                              !.buf = IF fin.ok THEN <<>> ELSE @,
                                              !.pre = Rows(db)]]
        /\ moved' = IF fin.ok /\ \E i \in 1..Len(scan[s].cands) : scan[s].cands[i] = moved.to
                    THEN [moved EXCEPT !.scanned = TRUE] ELSE moved
        /\ rec' = RecAfter
        /\ api' = NoCall
        /\ UNCHANGED <<demo, disk, writer, fsOps, ops>>

----------------------------------------------------------------------------
(* process_files statement by statement, for scans that run at the same     *)
(* time on connections of their own. SQLite has one writer: the first INSERT *)
(* of a connection takes the write lock and keeps it until COMMIT or         *)
(* ROLLBACK; a write of another connection meanwhile fails with              *)
(* OperationalError (database is locked). A connection reads the committed   *)
(* rows and its own uncommitted ones.                                        *)

LockedFor(s) == writer \notin {"none", s}

\* the statements before the loop
ScanBegin(s) ==
    /\ scan[s].pc = "begin"
    /\ scan' = [scan EXCEPT ![s] = [BeginProcess(scan[s], db) EXCEPT
                                      !.pc = "loop", !.pre = Rows(db)]]
    /\ UNCHANGED <<demo, disk, db, tx, writer, rec, api, moved, fsOps, ops>>

\* one iteration of the loop
ScanFile(s) ==
    LET one == ProcessOne(scan[s], View(s), disk, Now, LockedFor(s))
    IN  /\ scan[s].pc = "loop"
        /\ scan[s].idx <= Len(scan[s].cands)
        /\ scan' = [scan EXCEPT ![s] = one.sc]
        /\ tx' = IF one.wrote THEN one.db ELSE tx
        /\ writer' = IF one.wrote THEN s ELSE writer
        /\ UNCHANGED <<demo, disk, db, rec, api, moved, fsOps, ops>>

\* "Send final progress", after the commit, and the return
FinalProgress(sc) ==
    IF sc.ws = "none" THEN [sc EXCEPT !.pc = "done"]
    ELSE LET r == progress_callback(sc, "processing", Len(sc.cands) + 1)
         IN  [r.sc EXCEPT !.pc = IF r.ok THEN "done" ELSE "raised"]

\* after the loop: the last insert, the folder statistics, COMMIT; an
\* exception leaves the with block, which rolls back
ScanFinish(s) ==
    LET fin == FinishProcess(scan[s], View(s), Now)
        ok == ~LockedFor(s) /\ fin.ok
    IN  /\ scan[s].pc = "loop"
        /\ scan[s].idx > Len(scan[s].cands)
        /\ db' = IF ok THEN fin.db ELSE db
        /\ tx' = IF LockedFor(s) THEN tx ELSE db'
        /\ writer' = IF LockedFor(s) THEN writer ELSE "none"
        /\ scan' = [Disturbed(scan, s) EXCEPT
                       ![s] = IF ok THEN FinalProgress([scan[s] EXCEPT !.buf = <<>>])
                              ELSE [scan[s] EXCEPT !.pc = "raised"]]
        /\ UNCHANGED <<demo, disk, rec, api, moved, fsOps, ops>>

----------------------------------------------------------------------------
(* scan_for_files root by root, the crash of the process during a scan, and *)
(* the startup recovery of the next process                                 *)

\* one iteration of the loop over folder_paths: an invalid root is skipped,
\* a valid one is marked scanning (committed) and walked
ScanRoot(s) ==
    LET sc == scan[s]
        folder_path == Resolve(sc.roots[sc.idx + 1])
        valid == folder_path \in Dirs
        walked == [sc EXCEPT !.idx = @ + 1, !.cands = @ \o WalkRoot(disk, folder_path)]
        r == progress_callback(walked, "scanning", sc.idx + 1)
    IN  /\ sc.pc = "walk"
        /\ sc.idx < Len(sc.roots)
        /\ valid => writer = "none"
        /\ db' = IF valid THEN SetFolderStatus(db, folder_path, "scanning") ELSE db
        /\ tx' = db'
        /\ scan' = [scan EXCEPT ![s] =
                      IF ~valid THEN [sc EXCEPT !.idx = @ + 1]
                      ELSE IF sc.ws = "none" THEN walked
                      ELSE IF r.ok THEN r.sc
                      ELSE [r.sc EXCEPT !.pc = "raised"]]
        /\ UNCHANGED <<demo, disk, writer, rec, api, moved, fsOps, ops>>

\* "Mark all folders as scanned", after the loop
ScanMark(s) ==
    /\ scan[s].pc = "walk"
    /\ scan[s].idx = Len(scan[s].roots)
    /\ writer = "none"
    /\ db' = MarkProcessing(db, scan[s].roots, 1)
    /\ tx' = db'
    /\ scan' = [scan EXCEPT ![s].pc = "begin", ![s].idx = 0]
    /\ UNCHANGED <<demo, disk, writer, rec, api, moved, fsOps, ops>>

\* the WebSocket trigger: record the roots as pending and run
\* scan_folders_with_progress in the executor, with the progress callback
websocket_scan_endpoint(s, roots) ==
    /\ ops < MaxOps
    /\ scan[s].pc \in {"idle", "done", "raised"}
    /\ writer = "none"
    /\ db' = AddFolders(db, roots)
    /\ tx' = db'
    /\ scan' = [Disturbed(scan, s) EXCEPT ![s] =
                  [IdleScan EXCEPT !.pc = "walk", !.roots = roots, !.ws = "open"]]
    /\ rec' = RecAfter
    /\ ops' = ops + 1
    /\ api' = NoCall
    /\ UNCHANGED <<demo, disk, writer, moved, fsOps>>

\* the observer goes away while the scan runs in its thread
Disconnect(s) ==
    /\ scan[s].pc \in {"walk", "begin", "loop"}
    /\ scan[s].ws = "open"
    /\ scan' = [scan EXCEPT ![s].ws = "closed"]
    /\ UNCHANGED <<demo, disk, db, tx, writer, rec, api, moved, fsOps, ops>>

\* the process dies during a scan: SQLite rolls the open transaction back
Crash(s) ==
    /\ scan[s].pc \in {"walk", "begin", "loop"}
    /\ scan' = [scan EXCEPT ![s] =
                  [IdleScan EXCEPT !.pc = "crashed", !.roots = scan[s].roots,
                                   !.flushed = {l.path : l \in View(s).locs \ db.locs}]]
    /\ tx' = db
    /\ writer' = IF writer = s THEN "none" ELSE writer
    /\ UNCHANGED <<demo, disk, db, rec, api, moved, fsOps, ops>>

\* SELECT path FROM folders WHERE status != 'active'
Incomplete(d) == {f \in d.folders : f.status # "active"}

\* the rows in rowid order, from the end of it that tie names
RECURSIVE FoldersInOrder(_, _)
FoldersInOrder(S, tie) ==
    IF S = {} THEN <<>>
    ELSE LET m == CHOOSE x \in S : \A y \in S \ {x} :
                      IF tie = "first" THEN x.id < y.id ELSE x.id > y.id
         IN  <<m.path>> \o FoldersInOrder(S \ {m}, tie)

\* UPDATE folders SET status = 'pending' WHERE path = ?
RECURSIVE ResetPending(_, _, _)
ResetPending(d, order, i) ==
    IF i > Len(order) THEN d
    ELSE ResetPending(SetFolderStatus(d, order[i], "pending"), order, i + 1)

\* scan_folders(incomplete_folders) run to its end on database d: the
\* committed database, the statistics, and whether it returned or raised
ScanFolders(d, dk, roots, t) ==
    LET w == WalkRoots(d, dk, roots, 1)
        d2 == MarkProcessing(w.db, roots, 1)
        sc == BeginProcess([IdleScan EXCEPT !.roots = roots, !.cands = w.cands], d2)
        loop == ProcessLoop(sc, d2, dk, t)
        fin == FinishProcess(loop.sc, loop.db, t)
    IN  [db |-> IF fin.ok THEN fin.db ELSE d2, stats |-> loop.sc.stats, ok |-> fin.ok]

\* lifespan at startup: check_and_complete_incomplete_scans, with the
\* incomplete folders in the order the SELECT, which has no ORDER BY,
\* returns them
check_and_complete_incomplete_scans(s, tie) ==
    LET order == FoldersInOrder(Incomplete(db), tie)
        r == ScanFolders(ResetPending(db, order, 1), disk, order, Now + 1)
        stats == IF order = <<>> THEN ZeroRecovery
                 ELSE IF r.ok THEN [resumed |-> Len(order), completed |-> r.stats.added,
                                    errors |-> r.stats.errors]
                 ELSE [resumed |-> Len(order), completed |-> 0, errors |-> 1]
    IN  /\ ops < MaxOps
        /\ scan[s].pc \in {"idle", "done", "raised", "crashed", "recovered"}
        /\ writer = "none"
        /\ db' = IF order = <<>> THEN db ELSE r.db
        /\ tx' = db'
        /\ scan' = [Disturbed(scan, s) EXCEPT ![s] =
                      [IdleScan EXCEPT !.pc = "recovered", !.roots = order,
                                       !.recovery = stats, !.pre = Rows(db),
                                       !.flushed = scan[s].flushed,
                                       !.crashed = scan[s].pc = "crashed",
                                       !.folders0 = db.folders]]
        /\ rec' = RecAfter
        /\ api' = NoCall
        /\ ops' = ops + 1
        /\ UNCHANGED <<demo, disk, writer, moved, fsOps>>

----------------------------------------------------------------------------
(* The reconciler: reconcile_files *)

Indexed(d, fid) == \E f \in d.files : f.id = fid /\ f.indexed

\* ORDER BY fl.file_id, fl.is_primary DESC (rows that tie come in rowid order)
LocBefore(a, b) ==
    \/ a.file_id < b.file_id
    \/ a.file_id = b.file_id /\ a.is_primary /\ ~b.is_primary
    \/ a.file_id = b.file_id /\ a.is_primary = b.is_primary /\ a.id < b.id

RECURSIVE SortedLocs(_)
SortedLocs(S) ==
    IF S = {} THEN <<>>
    ELSE LET m == CHOOSE x \in S : \A y \in S \ {x} : LocBefore(x, y)
         IN  <<m>> \o SortedLocs(S \ {m})

\* SELECT ... FROM file_locations fl JOIN files f ... WHERE f.indexed = 1 ORDER BY ...
SelectLocations(d) == SortedLocs({l \in d.locs : Indexed(d, l.file_id)})

\* ORDER BY discovered_at ASC LIMIT 1. SQL leaves the order of rows with equal
\* discovered_at (rows of one scan) to the query plan: tie says which end of
\* the rowid order comes first
Oldest(S, tie) ==
    CHOOSE x \in S : \A y \in S \ {x} :
        \/ x.discovered_at < y.discovered_at
        \/ /\ x.discovered_at = y.discovered_at
           /\ IF tie = "first" THEN x.id < y.id ELSE x.id > y.id

\* a Location found missing is deleted
SetVerified_Delete(d, lid, v) ==
    [d EXCEPT !.locs = IF v = NULL THEN {l \in @ : l.id # lid}
                       ELSE {IF l.id = lid THEN [l EXCEPT !.last_verified = v] ELSE l : l \in @}]

\* UPDATE file_locations SET last_verified = ? WHERE id = ?
SetVerified(d, lid, v) ==
    [d EXCEPT !.locs = {IF l.id = lid THEN [l EXCEPT !.last_verified = v] ELSE l : l \in @}]

\* UPDATE file_locations SET is_primary = ? WHERE id = ?
SetPrimaryFlag(d, lid, b) ==
    [d EXCEPT !.locs = {IF l.id = lid THEN [l EXCEPT !.is_primary = b] ELSE l : l \in @}]

\* the other location is promoted and the missing one stays primary
Promote_NoDemote(d, dk, file_id, location_id, tie) ==
    LET others == {l \in d.locs : l.file_id = file_id /\ l.id # location_id}
    IN  IF others = {} THEN d
        ELSE LET other == Oldest(others, tie)
             IN  IF Exists(dk, other.path) THEN SetPrimaryFlag(d, other.id, TRUE) ELSE d

\* "If this was primary, try to promote another location": the oldest other
\* location of the file, and only that one, is tried
Promote(d, dk, file_id, location_id, tie) ==
    LET others == {l \in d.locs : l.file_id = file_id /\ l.id # location_id}
    IN  IF others = {} THEN d
        ELSE LET other == Oldest(others, tie)
             IN  IF Exists(dk, other.path)
                 THEN SetPrimaryFlag(SetPrimaryFlag(d, location_id, FALSE), other.id, TRUE)
                 ELSE d

\* a missing primary location is demoted whether or not another is promoted
ReconcileOne_AlwaysDemote(d, dk, loc, t, tie) ==
    IF Exists(dk, loc.path)
    THEN SetVerified(d, loc.id, t)
    ELSE LET d1 == SetVerified(d, loc.id, NULL)
         IN  IF loc.is_primary
             THEN Promote(SetPrimaryFlag(d1, loc.id, FALSE), dk, loc.file_id, loc.id, tie)
             ELSE d1

\* the UPDATEs of the loop body for one location of the snapshot
ReconcileOne(d, dk, loc, t, tie) ==
    IF Exists(dk, loc.path)
    THEN SetVerified(d, loc.id, t)
    ELSE LET d1 == SetVerified(d, loc.id, NULL)
         IN  IF loc.is_primary THEN Promote(d1, dk, loc.file_id, loc.id, tie) ELSE d1

\* was_primary is read after the loop body has demoted the location
MissingDetail_NotPrimary(loc) ==
    [file_id |-> loc.file_id, file_hash |-> loc.file_hash, location_id |-> loc.id,
     file_path |-> loc.path, was_primary |-> FALSE]

MissingDetail(loc) ==
    [file_id |-> loc.file_id, file_hash |-> loc.file_hash, location_id |-> loc.id,
     file_path |-> loc.path, was_primary |-> loc.is_primary]

\* a missing location is listed but not counted
CountOne_DetailOnly(st, dk, loc) ==
    IF Exists(dk, loc.path)
    THEN [st EXCEPT !.valid_locations = @ + 1]
    ELSE [st EXCEPT !.missing_details = Append(@, MissingDetail(loc))]

\* the statistics of the loop body for one location
CountOne(st, dk, loc) ==
    IF Exists(dk, loc.path)
    THEN [st EXCEPT !.valid_locations = @ + 1]
    ELSE [st EXCEPT !.missing_locations = @ + 1,
                    !.missing_details = Append(@, MissingDetail(loc))]

RECURSIVE ReconcileLoop(_, _, _, _, _, _, _)
ReconcileLoop(d, st, dk, locations, i, t, tie) ==
    IF i > Len(locations) THEN [db |-> d, stats |-> st]
    ELSE ReconcileLoop(ReconcileOne(d, dk, locations[i], t, tie),
                       CountOne(st, dk, locations[i]), dk, locations, i + 1, t, tie)

\* files with no location row at all
Orphaned_NoLocations(d) ==
    {f \in d.files : f.indexed /\ ~\E l \in d.locs : l.file_id = f.id}

\* files with no location whose last_verified is non-null
Orphaned(d) ==
    {f \in d.files : f.indexed /\ ~\E l \in d.locs : l.file_id = f.id /\ l.last_verified # NULL}

\* the two counts after the commit
FinalCounts(st, d) ==
    [st EXCEPT !.orphaned_files = Cardinality(Orphaned(d)),
               !.total_files = Cardinality({f \in d.files : f.indexed})]

\* reconcile_files, run without another writer in its way
reconcile_files(tie) ==
    LET locations == SelectLocations(db)
        loop == ReconcileLoop(db, [ZeroRec EXCEPT !.total_locations = Len(locations)],
                              disk, locations, 1, Now + 1, tie)
    IN  /\ ops < MaxOps
        /\ rec.pc \in {"idle", "done", "raised"}
        /\ NoScanRunning
        /\ writer = "none"
        /\ db' = loop.db
        /\ tx' = db'
        /\ rec' = [IdleRec EXCEPT !.pc = "done", !.locations = locations,
                                  !.idx = Len(locations) + 1,
                                  !.stats = FinalCounts(loop.stats, loop.db),
                                  !.pre = Rows(db), !.folders0 = db.folders,
                                  !.again = rec.pc = "done" /\ rec.tie = tie,
                                  !.prev = IF rec.pc = "done" /\ rec.tie = tie
                                           THEN rec.stats ELSE ZeroRec,
                                  !.tie = tie]
        /\ scan' = Disturbed(scan, "rec")
        /\ ops' = ops + 1
        /\ api' = NoCall
        /\ UNCHANGED <<demo, disk, writer, moved, fsOps>>

----------------------------------------------------------------------------
(* reconcile_files statement by statement, on a connection of its own next  *)
(* to a scan: its first UPDATE takes the write lock, which it keeps until   *)
(* its COMMIT; an UPDATE that finds the lock held by the scan for longer    *)
(* than the busy timeout raises OperationalError, which nothing catches     *)

\* the SELECT of the locations and the locals before the loop
RecBegin ==
    LET locations == SelectLocations(db)
    IN  /\ ops < MaxOps
        /\ rec.pc \in {"idle", "done", "raised"}
        /\ rec' = [IdleRec EXCEPT !.pc = "loop", !.locations = locations, !.idx = 1,
                                  !.stats = [ZeroRec EXCEPT !.total_locations = Len(locations)],
                                  !.pre = Rows(db), !.folders0 = db.folders]
        /\ ops' = ops + 1
        /\ UNCHANGED <<demo, disk, db, tx, writer, scan, api, moved, fsOps>>

\* one iteration of the loop
RecStep(tie) ==
    LET loc == rec.locations[rec.idx]
    IN  /\ rec.pc = "loop"
        /\ rec.idx <= Len(rec.locations)
        /\ IF LockedFor("rec")
           THEN /\ rec' = [rec EXCEPT !.pc = "raised"]
                /\ UNCHANGED <<demo, tx, writer>>
           ELSE /\ tx' = ReconcileOne(View("rec"), disk, loc, Now + 1, tie)
                /\ writer' = "rec"
                /\ rec' = [rec EXCEPT !.idx = @ + 1, !.stats = CountOne(@, disk, loc)]
        /\ UNCHANGED <<demo, disk, db, scan, api, moved, fsOps, ops>>

\* conn.commit() and the two counts
RecFinish ==
    /\ rec.pc = "loop"
    /\ rec.idx > Len(rec.locations)
    /\ db' = View("rec")
    /\ tx' = IF LockedFor("rec") THEN tx ELSE db'
    /\ writer' = IF writer = "rec" THEN "none" ELSE writer
    /\ rec' = [rec EXCEPT !.pc = "done", !.stats = FinalCounts(@, db')]
    /\ UNCHANGED <<demo, disk, scan, api, moved, fsOps, ops>>

\* the writes of the open transaction survive the death of the process
RolledBack_KeepsOpen(committed, working) == working

\* what the next process finds when the connection died with a transaction
\* open: SQLite rolls the transaction back
RolledBack(committed, working) == committed

\* the process dies in the with block before conn.commit()
RecCrash ==
    /\ rec.pc = "loop"
    /\ db' = RolledBack(db, View("rec"))
    /\ tx' = IF writer \in {"none", "rec"} THEN db' ELSE tx
    /\ writer' = IF writer = "rec" THEN "none" ELSE writer
    /\ rec' = [rec EXCEPT !.pc = "crashed"]
    /\ UNCHANGED <<demo, disk, scan, api, moved, fsOps, ops>>

\* conn.commit(), and the process dies in the two counts that follow it,
\* before reconcile_files returns
RecCrashCommitted ==
    /\ rec.pc = "loop"
    /\ rec.idx > Len(rec.locations)
    /\ db' = View("rec")
    /\ tx' = IF LockedFor("rec") THEN tx ELSE db'
    /\ writer' = IF writer = "rec" THEN "none" ELSE writer
    /\ rec' = [rec EXCEPT !.pc = "committed"]
    /\ UNCHANGED <<demo, disk, scan, api, moved, fsOps, ops>>

----------------------------------------------------------------------------
(* The location endpoints of routers/samples.py *)

\* the flags of the other Locations are left as they are
SetPrimaryRows_NoClear(d, file_id, location_id) == SetPrimaryFlag(d, location_id, TRUE)

\* the two UPDATEs of set_primary_location
SetPrimaryRows(d, file_id, location_id) ==
    LET cleared == [d EXCEPT !.locs = {IF l.file_id = file_id
                                        THEN [l EXCEPT !.is_primary = FALSE] ELSE l : l \in @}]
    IN  SetPrimaryFlag(cleared, location_id, TRUE)

\* PUT /{file_id}/locations/primary
set_primary_location(file_id, location_id) ==
    LET found == \E l \in db.locs : l.id = location_id /\ l.file_id = file_id
    IN  /\ ops < MaxOps
        /\ writer = "none"
        /\ NoScanRunning
        /\ db' = IF found THEN SetPrimaryRows(db, file_id, location_id) ELSE db
        /\ tx' = db'
        /\ api' = [op |-> "set_primary", ok |-> found, file_id |-> file_id,
                   location_id |-> location_id]
        /\ scan' = Disturbed(scan, "api")
        /\ rec' = RecAfter
        /\ moved' = [moved EXCEPT !.scanned = FALSE]
        /\ ops' = ops + 1
        /\ UNCHANGED <<demo, disk, writer, fsOps>>

\* the Location is deleted and no other one is made primary
DeleteLocationRows_NoPromote(d, file_id, location_id, was_primary, tie) ==
    [d EXCEPT !.locs = {l \in @ : l.id # location_id}]

\* DELETE FROM file_locations WHERE id = ?, then, when it was primary,
\* UPDATE file_locations SET is_primary = 1 WHERE file_id = ? ORDER BY discovered_at ASC LIMIT 1
DeleteLocationRows(d, file_id, location_id, was_primary, tie) ==
    LET d1 == [d EXCEPT !.locs = {l \in @ : l.id # location_id}]
    IN  IF was_primary THEN SetPrimaryFlag(d1, Oldest(LocsOf(d1, file_id), tie).id, TRUE)
        ELSE d1

\* DELETE /{file_id}/locations/{location_id}. UPDATE ... ORDER BY ... LIMIT is
\* accepted only by an SQLite built with SQLITE_ENABLE_UPDATE_DELETE_LIMIT
\* (update_limit); without it the statement raises and the with block rolls
\* the deletion back
delete_file_location(file_id, location_id, update_limit, tie) ==
    LET mine == {l \in db.locs : l.id = location_id /\ l.file_id = file_id}
        refused == Cardinality(LocsOf(db, file_id)) <= 1 \/ mine = {}
        was_primary == (CHOOSE l \in mine : TRUE).is_primary
        ok == ~refused /\ (was_primary => update_limit)
    IN  /\ ops < MaxOps
        /\ writer = "none"
        /\ NoScanRunning
        /\ db' = IF ok THEN DeleteLocationRows(db, file_id, location_id, was_primary, tie)
                 ELSE db
        /\ tx' = db'
        /\ api' = [op |-> "delete_location", ok |-> ok, file_id |-> file_id,
                   location_id |-> location_id]
        /\ scan' = Disturbed(scan, "api")
        /\ rec' = RecAfter
        /\ moved' = [moved EXCEPT !.scanned = FALSE]
        /\ ops' = ops + 1
        /\ UNCHANGED <<demo, disk, writer, fsOps>>

----------------------------------------------------------------------------
(* The file and collection endpoints: routers/samples.py and                *)
(* routers/collections.py. No statement of the program inserts into         *)
(* file_tags: the tag endpoints name the tables samples and sample_tags,    *)
(* which the schema does not have.                                          *)

\* POST /collections
create_collection ==
    /\ Cardinality(db.collections) < MaxCollections
    /\ writer = "none"
    /\ db' = [db EXCEPT !.collections = @ \cup {db.nextCollection},
                        !.nextCollection = @ + 1]
    /\ tx' = db'
    /\ api' = [op |-> "create_collection", ok |-> TRUE, file_id |-> 0, location_id |-> 0]
    /\ scan' = Disturbed(scan, "api")
    /\ rec' = RecAfter
    /\ UNCHANGED <<demo, disk, writer, moved, fsOps, ops>>

\* POST /collections/{collection_id}/items: 404 without the collection; the
\* INSERT fails on UNIQUE(collection_id, file_id) and, with foreign keys on,
\* on a file_id that is not in files
add_item_to_collection(collection_id, file_id) ==
    LET orders == {i.order_index : i \in {x \in db.items : x.collection_id = collection_id}}
        max_order == IF orders = {} THEN 0
                     ELSE CHOOSE n \in orders : \A m \in orders : m <= n
        ok == /\ collection_id \in db.collections
              /\ \E f \in db.files : f.id = file_id
              /\ ~\E i \in db.items : i.collection_id = collection_id /\ i.file_id = file_id
    IN  /\ writer = "none"
        /\ db' = IF ok THEN [db EXCEPT !.items = @ \cup {[collection_id |-> collection_id,
                                                           file_id |-> file_id,
                                                           order_index |-> max_order + 1]}]
                 ELSE db
        /\ tx' = db'
        /\ api' = [op |-> "add_item", ok |-> ok, file_id |-> file_id, location_id |-> 0]
        /\ scan' = Disturbed(scan, "api")
        /\ rec' = RecAfter
        /\ UNCHANGED <<demo, disk, writer, moved, fsOps, ops>>

\* foreign keys are not enforced: only the File row goes
DeleteFileRows_NoCascade(d, file_id) ==
    [d EXCEPT !.files = {f \in @ : f.id # file_id}]

\* DELETE FROM files WHERE id = ? on a connection with PRAGMA foreign_keys =
\* ON: the rows of file_locations, file_metadata, file_tags and
\* collection_items that reference the File go with it (ON DELETE CASCADE)
DeleteFileRows(d, file_id) ==
    [d EXCEPT !.files = {f \in @ : f.id # file_id},
              !.locs = {l \in @ : l.file_id # file_id},
              !.meta = {m \in @ : m.file_id # file_id},
              !.file_tags = {t \in @ : t.file_id # file_id},
              !.items = {i \in @ : i.file_id # file_id}]

\* DELETE /{file_id}: 404 when no row was deleted
delete_file(file_id) ==
    LET found == \E f \in db.files : f.id = file_id
    IN  /\ ops < MaxOps
        /\ writer = "none"
        /\ db' = DeleteFileRows(db, file_id)
        /\ tx' = db'
        /\ api' = [op |-> "delete_file", ok |-> found, file_id |-> file_id,
                   location_id |-> 0,
                   cascaded |-> [locs |-> Cardinality(LocsOf(db, file_id)),
                                 meta |-> Cardinality({m \in db.meta : m.file_id = file_id}),
                                 items |-> Cardinality({i \in db.items : i.file_id = file_id})]]
        /\ scan' = Disturbed(scan, "api")
        /\ rec' = RecAfter
        /\ moved' = [moved EXCEPT !.scanned = FALSE]
        /\ ops' = ops + 1
        /\ UNCHANGED <<demo, disk, writer, fsOps>>

----------------------------------------------------------------------------
(* The session manager of demo mode: demo/database.py. sessions is the      *)
(* OrderedDict, oldest entry first; call is what the last get_connection    *)
(* found and did.                                                           *)

\* seconds, scaled: 3600 and 300 in the program
SESSION_TIMEOUT == 2
CLEANUP_INTERVAL == 1

SessionIds == 1..(MaxSessions + 1)

NoSessionCall ==
    [session_id |-> 0, before |-> <<>>, cleaned |-> {}, evicted |-> {}, created |-> FALSE]

\* DemoSessionDatabase.__init__
NewManager ==
    [sessions |-> <<>>, last_cleanup |-> 0, now |-> 0, call |-> NoSessionCall]

Ids(sessions) == [i \in 1..Len(sessions) |-> sessions[i].session_id]
IdSet(sessions) == {sessions[i].session_id : i \in 1..Len(sessions)}

\* _cleanup_stale_sessions
Stale(sessions, now) ==
    {sessions[i].session_id : i \in {j \in 1..Len(sessions) :
                                       now - sessions[j].last_access > SESSION_TIMEOUT}}

\* the newest session is evicted
EvictLru_Newest(sessions) ==
    IF sessions = <<>> THEN <<>> ELSE SubSeq(sessions, 1, Len(sessions) - 1)

\* _evict_lru_session: self.sessions.popitem(last=False)
EvictLru(sessions) == IF sessions = <<>> THEN <<>> ELSE Tail(sessions)

\* time passes
Tick ==
    /\ demo.now < MaxTime
    /\ demo' = [demo EXCEPT !.now = @ + 1, !.call = NoSessionCall]
    /\ UNCHANGED <<disk, db, tx, writer, scan, rec, api, moved, fsOps, ops>>

\* DemoSessionDatabase.get_connection, with _maybe_cleanup
get_connection(session_id) ==
    LET now == demo.now
        due == now - demo.last_cleanup >= CLEANUP_INTERVAL
        cleaned == IF due THEN Stale(demo.sessions, now) ELSE {}
        kept == SelectSeq(demo.sessions, LAMBDA x : x.session_id \notin cleaned)
        found == session_id \in IdSet(kept)
        others == SelectSeq(kept, LAMBDA x : x.session_id # session_id)
        full == Len(kept) >= MaxSessions
        room == IF full THEN EvictLru(kept) ELSE kept
        entry == [session_id |-> session_id, last_access |-> now]
    IN  /\ demo' = [sessions |-> IF found THEN Append(others, entry) ELSE Append(room, entry),
                    last_cleanup |-> IF due THEN now ELSE demo.last_cleanup,
                    now |-> now,
                    call |-> [session_id |-> session_id,
                              before |-> Ids(demo.sessions),
                              cleaned |-> cleaned,
                              evicted |-> IF found THEN {} ELSE IdSet(kept) \ IdSet(room),
                              created |-> ~found]]
        /\ UNCHANGED <<disk, db, tx, writer, scan, rec, api, moved, fsOps, ops>>

----------------------------------------------------------------------------
(* The specification: operations one at a time, the filesystem changing      *)
(* between any two of them and between the two phases of a scan              *)

Disk(a, c, d) == (PA :> a) @@ (PC :> c) @@ (PD :> d)

\* the filesystems the runs start from
InitDisks ==
    {Disk("H1", "H1", "H1"),
     Disk("H1", "H1", NoFile),
     Disk("H1", Unreadable, "H2")}

Init ==
    /\ disk \in InitDisks
    /\ db = EmptyDb
    /\ tx = EmptyDb
    /\ writer = "none"
    /\ scan = [s \in Slots |-> IdleScan]
    /\ rec = IdleRec
    /\ api = NoCall
    /\ moved = NoMove
    /\ fsOps = 0
    /\ ops = 0
    /\ demo = NewManager

FileIds == {f.id : f \in db.files}
LocIds == {l.id : l \in db.locs}

Next ==
    \/ \E p \in Paths : FsDelete(p)
    \/ \E m \in Moves : FsMove(m[1], m[2])
    \/ \E roots \in RootLists : StartScan("s1", roots)
    \/ scan_for_files("s1")
    \/ process_files("s1")
    \/ \E tie \in Ties : reconcile_files(tie)
    \/ \E l \in db.locs : set_primary_location(l.file_id, l.id)
    \/ \E l \in db.locs, b \in BOOLEAN, tie \in Ties :
          delete_file_location(l.file_id, l.id, b, tie)

Spec == Init /\ [][Next]_vars

\* scans of two clients at the same time, on a filesystem that stays as it is
NextConc ==
    \/ \E s \in Slots, roots \in RootLists : StartScan(s, roots)
    \/ \E s \in Slots : scan_for_files(s)
    \/ \E s \in Slots : ScanBegin(s)
    \/ \E s \in Slots : ScanFile(s)
    \/ \E s \in Slots : ScanFinish(s)

SpecConc == Init /\ [][NextConc]_vars

\* files that go away and come back between the scans and reconciles of one
\* client
NextRestore ==
    \/ \E p \in Paths : FsDelete(p)
    \/ \E p \in Paths, c \in Hashes : FsWrite(p, c)
    \/ \E roots \in RootLists : StartScan("s1", roots)
    \/ scan_for_files("s1")
    \/ process_files("s1")
    \/ \E tie \in Ties : reconcile_files(tie)

SpecRestore == Init /\ [][NextRestore]_vars

\* a scan and a reconcile at the same time, on a filesystem that stays as
\* it is
NextBoth ==
    \/ \E roots \in RootLists : StartScan("s1", roots)
    \/ scan_for_files("s1")
    \/ ScanBegin("s1")
    \/ ScanFile("s1")
    \/ ScanFinish("s1")
    \/ RecBegin
    \/ \E tie \in Ties : RecStep(tie)
    \/ RecFinish

SpecBoth == Init /\ [][NextBoth]_vars

\* a reconcile, statement by statement, during which the process may die;
\* nothing else runs while it does
NextRecCrash ==
    \/ rec.pc # "loop" /\ \E p \in Paths : FsDelete(p)
    \/ rec.pc # "loop" /\ \E roots \in RootLists : StartScan("s1", roots)
    \/ rec.pc # "loop" /\ scan_for_files("s1")
    \/ rec.pc # "loop" /\ process_files("s1")
    \/ NoScanRunning /\ RecBegin
    \/ \E tie \in Ties : RecStep(tie)
    \/ RecFinish
    \/ RecCrash
    \/ RecCrashCommitted

SpecRecCrash == Init /\ [][NextRecCrash]_vars

\* a client of the location endpoints that names any File and any Location,
\* also a Location of another File or one that does not exist
NextApi ==
    \/ \E roots \in RootLists : StartScan("s1", roots)
    \/ scan_for_files("s1")
    \/ process_files("s1")
    \/ \E f \in 1..db.nextFile, l \in 1..db.nextLoc : set_primary_location(f, l)
    \/ \E f \in 1..db.nextFile, l \in 1..db.nextLoc, b \in BOOLEAN, tie \in Ties :
          delete_file_location(f, l, b, tie)

SpecApi == Init /\ [][NextApi]_vars

\* the clients of the demo mode and the clock
NextDemo ==
    \/ \E session_id \in SessionIds : get_connection(session_id)
    \/ Tick

SpecDemo == Init /\ [][NextDemo]_vars

\* root lists for the walk alone: overlapping roots and a root that does
\* not exist, a hidden root, a root that is a file
WalkRootLists == {<<RLib, RNope, RSub, RLib2>>, <<RHid, RLib>>, <<PA, RLib2>>}

\* the walk of a scan over a filesystem that changes between scans
NextWalk ==
    \/ \E p \in Paths : FsDelete(p)
    \/ \E p \in Paths, c \in Contents : FsWrite(p, c)
    \/ \E s \in Slots, roots \in WalkRootLists : StartScan(s, roots)
    \/ \E s \in Slots : scan_for_files(s)

SpecWalk == Init /\ [][NextWalk]_vars

\* a scan started over the WebSocket, statement by statement, and its
\* observer
NextWs ==
    \/ \E roots \in RootLists : websocket_scan_endpoint("s1", roots)
    \/ ScanRoot("s1")
    \/ ScanMark("s1")
    \/ ScanBegin("s1")
    \/ ScanFile("s1")
    \/ ScanFinish("s1")
    \/ Disconnect("s1")

SpecWs == Init /\ [][NextWs]_vars

\* one client that scans, fills a collection and deletes Files
NextDelete ==
    \/ \E roots \in RootLists : StartScan("s1", roots)
    \/ scan_for_files("s1")
    \/ process_files("s1")
    \/ create_collection
    \/ \E c \in 1..MaxCollections, f \in 1..db.nextFile : add_item_to_collection(c, f)
    \/ \E f \in 1..db.nextFile : delete_file(f)

SpecDelete == Init /\ [][NextDelete]_vars

\* one scan at a time, statement by statement, with the process crashing
\* during it and the next process recovering at startup, on a filesystem
\* that stays as it is
NextCrash ==
    \/ \E roots \in SpelledRootLists : StartScan("s1", roots)
    \/ ScanRoot("s1")
    \/ ScanMark("s1")
    \/ ScanBegin("s1")
    \/ ScanFile("s1")
    \/ ScanFinish("s1")
    \/ Crash("s1")
    \/ \E tie \in Ties : check_and_complete_incomplete_scans("s1", tie)

SpecCrash == Init /\ [][NextCrash]_vars

----------------------------------------------------------------------------
(* The properties *)

ScanEnded(s) == scan[s].pc \in {"done", "raised"}

CandidatesOf(s) == {scan[s].cands[i] : i \in 1..Len(scan[s].cands)}

NoDuplicate(seq) == \A i, j \in 1..Len(seq) : seq[i] = seq[j] => i = j

\* the paths a scan that has just ended met for the first time and could hash
NewlyScanned(s) ==
    {p \in CandidatesOf(s) : p \notin scan[s].existing /\ disk[p] \in Hashes}

FilesWithHash(h) == {f \in db.files : f.file_hash = h}
LocsAt(p) == {l \in db.locs : l.path = p}

\* C1: no two File rows of the catalog have the same content hash, and a
\* scan that meets two new paths with identical bytes (each path once)
\* returns with exactly one File row of that hash and exactly one Location
\* row per path, both of that File.
C1_OneFilePerHash ==
    /\ \A f, g \in db.files : f.file_hash = g.file_hash => f = g
    /\ \A s \in Slots :
         (ScanEnded(s) /\ NoDuplicate(scan[s].cands)) =>
           \A p, q \in NewlyScanned(s) :
              (p # q /\ disk[p] = disk[q]) =>
                 /\ scan[s].pc = "done"
                 /\ Cardinality(FilesWithHash(disk[p])) = 1
                 /\ Cardinality(LocsAt(p)) = 1
                 /\ Cardinality(LocsAt(q)) = 1
                 /\ \A l \in LocsAt(p) \cup LocsAt(q), f \in FilesWithHash(disk[p]) :
                       l.file_id = f.id

\* a scan has returned after meeting two new paths with identical bytes
C1_Witness ==
    \E s \in Slots :
       /\ scan[s].pc = "done"
       /\ NoDuplicate(scan[s].cands)
       /\ \E p, q \in NewlyScanned(s) : p # q /\ disk[p] = disk[q]

\* C2: every File has at most one Location that is primary among its
\* verified Locations.
C2_OnePrimaryAmongVerified ==
    \A f \in db.files :
       Cardinality({l \in LocsOf(db, f.id) : l.is_primary /\ l.last_verified # NULL}) <= 1

\* C3: no two Location rows have the same path, in the committed catalog and
\* in the rows a scan has written and not yet committed, whether a root is
\* listed twice, roots overlap or two scans run at the same time.
C3_OneLocationPerPath ==
    /\ \A l, m \in db.locs : l.path = m.path => l = m
    /\ \A l, m \in tx.locs : l.path = m.path => l = m

\* a scan raised on a path that the other scan committed while it ran
C3_Witness ==
    \E s \in Slots :
       /\ scan[s].pc = "raised"
       /\ writer = "none"
       /\ NoDuplicate(scan[s].cands)
       /\ \E i \in 1..Len(scan[s].buf) :
             /\ scan[s].buf[i].filepath \notin scan[s].existing
             /\ LocsAt(scan[s].buf[i].filepath) # {}

\* C4: a scan repeated on the same roots, with no change of the filesystem
\* since the first run started, returns added = 0 and skipped = N, the
\* number of files of the first run, and creates no File or Location row.
C4_RerunSkipsAll ==
    \A s \in Slots :
       (ScanEnded(s) /\ scan[s].rerun) =>
          /\ scan[s].pc = "done"
          /\ scan[s].stats.added = 0
          /\ scan[s].stats.skipped = scan[s].prev.total
          /\ Rows(db) = scan[s].pre

\* C4 as the code has it: the repeated scan returns added = 0 and
\* skipped = N - E, where E is the number of files the first run counted as
\* errors, and creates no File or Location row.
C4_RerunSkipsRecorded ==
    \A s \in Slots :
       (ScanEnded(s) /\ scan[s].rerun) =>
          /\ scan[s].pc = "done"
          /\ scan[s].stats.added = 0
          /\ scan[s].stats.skipped = scan[s].prev.total - scan[s].prev.errors
          /\ Rows(db) = scan[s].pre

\* a repeated scan has returned after a first run that recorded some files
\* and could not read another
C4_Witness ==
    \E s \in Slots :
       /\ scan[s].pc = "done"
       /\ scan[s].rerun
       /\ scan[s].prev.errors > 0
       /\ scan[s].prev.added > 0
       /\ scan[s].stats.skipped > 0

\* the Location of the catalog that had identifier lid
LocById(lid) == CHOOSE l \in db.locs : l.id = lid

PreLocsOf(fid) == {l \in rec.pre.locs : l.file_id = fid}

Missing(l) == ~Exists(disk, l.path)

\* the Files other than fid that have no verified Location
OtherUnverified(fid) ==
    {f \in db.files : f.indexed /\ f.id # fid /\
                      ~\E l \in db.locs : l.file_id = f.id /\ l.last_verified # NULL}

\* C5: for a File with two Locations, A primary and gone from the disk, B
\* secondary and on the disk, reconcile leaves A unverified and not primary,
\* B primary and verified, reports A among the missing Locations, and does
\* not count the File as orphaned.
C5_SurvivorPromoted ==
    rec.pc = "done" =>
      \A a, b \in rec.pre.locs :
         (/\ a.file_id = b.file_id
          /\ PreLocsOf(a.file_id) = {a, b}
          /\ a.is_primary /\ ~b.is_primary
          /\ Missing(a) /\ ~Missing(b)) =>
            /\ LocById(a.id).last_verified = NULL
            /\ ~LocById(a.id).is_primary
            /\ LocById(b.id).is_primary
            /\ LocById(b.id).last_verified # NULL
            /\ rec.stats.missing_locations =
                  Cardinality({l \in rec.pre.locs : Missing(l)})
            /\ \E i \in 1..Len(rec.stats.missing_details) :
                  rec.stats.missing_details[i].location_id = a.id
            /\ rec.stats.orphaned_files = Cardinality(OtherUnverified(a.file_id))

\* reconcile has returned for such a File
C5_Witness ==
    /\ rec.pc = "done"
    /\ \E a, b \in rec.pre.locs :
          /\ a.file_id = b.file_id
          /\ PreLocsOf(a.file_id) = {a, b}
          /\ a.is_primary /\ ~b.is_primary
          /\ Missing(a) /\ ~Missing(b)

\* C6: when reconcile returns, orphaned_files is the number of indexed Files
\* with no verified Location, which is the number of indexed Files none of
\* whose Locations is on the disk; a File whose only Location is gone from
\* the disk is one of them, and that Location is unverified.
C6_OrphanedCount ==
    rec.pc = "done" =>
      LET unverified == {f \in db.files : f.indexed /\
                           ~\E l \in db.locs : l.file_id = f.id /\ l.last_verified # NULL}
          offDisk == {f \in db.files : f.indexed /\
                        ~\E l \in db.locs : l.file_id = f.id /\ ~Missing(l)}
      IN  /\ rec.stats.orphaned_files = Cardinality(unverified)
          /\ unverified = offDisk
          /\ \A f \in db.files, l \in rec.pre.locs :
                (f.indexed /\ PreLocsOf(f.id) = {l} /\ Missing(l)) =>
                   (f \in unverified /\ LocById(l.id).last_verified = NULL)

\* reconcile has returned with an orphaned File whose only Location is gone
\* and with another File that is still on the disk
C6_Witness ==
    /\ rec.pc = "done"
    /\ rec.stats.orphaned_files = 1
    /\ \E f \in db.files, l \in rec.pre.locs : PreLocsOf(f.id) = {l} /\ Missing(l)
    /\ \E l \in db.locs : ~Missing(l)

DetailsFor(lid) ==
    {i \in 1..Len(rec.stats.missing_details) : rec.stats.missing_details[i].location_id = lid}

\* C7: when reconcile returns, a Location of an indexed File is verified
\* exactly when its path is on the disk, and missing_details has exactly one
\* entry per Location whose path is not, with was_primary the is_primary
\* that Location had before the run.
C7_VerifiedIffOnDisk ==
    rec.pc = "done" =>
      /\ \A l \in db.locs :
            Indexed(db, l.file_id) => ((l.last_verified # NULL) <=> ~Missing(l))
      /\ Len(rec.stats.missing_details) = Cardinality({l \in rec.pre.locs : Missing(l)})
      /\ \A l \in rec.pre.locs :
            Missing(l) =>
              /\ Cardinality(DetailsFor(l.id)) = 1
              /\ \A i \in DetailsFor(l.id) :
                    rec.stats.missing_details[i].was_primary = l.is_primary

\* reconcile has returned after demoting a missing primary Location and
\* verifying another one
C7_Witness ==
    /\ rec.pc = "done"
    /\ \E l \in rec.pre.locs : Missing(l) /\ l.is_primary /\ ~LocById(l.id).is_primary
    /\ \E l \in db.locs : l.last_verified # NULL

\* C8: after a file is renamed on the disk to a path the catalog did not
\* know, a scan that meets the new path followed by a reconcile leaves one
\* File row of that content: the new path is a primary, verified Location
\* of the File the old path belongs to, and the old path is an unverified
\* Location that is not primary.
C8_MoveKeepsFile ==
    (rec.pc = "done" /\ moved.fresh /\ moved.scanned) =>
      \A o \in LocsAt(moved.from) :
         o.file_hash = disk[moved.to] =>
            /\ Cardinality(FilesWithHash(o.file_hash)) = 1
            /\ \E n \in LocsAt(moved.to) :
                  /\ n.file_id = o.file_id
                  /\ n.is_primary
                  /\ n.last_verified # NULL
            /\ o.last_verified = NULL
            /\ ~o.is_primary

\* the Files of which reconcile found a primary Location missing and no
\* Location on the disk
LostFiles ==
    {f \in db.files :
        /\ \E l \in PreLocsOf(f.id) : l.is_primary /\ Missing(l)
        /\ \A l \in PreLocsOf(f.id) : Missing(l)}

\* C9: a File of which reconcile finds a primary Location missing and no
\* other Location on the disk ends the reconcile with no primary Location.
C9_NoPrimaryLeft ==
    rec.pc = "done" =>
      \A f \in LostFiles : \A l \in LocsOf(db, f.id) : ~l.is_primary

\* C9 as the code has it: such a File ends the reconcile with every Location
\* unverified and with the is_primary flags it had before the run, the
\* missing primary Location still primary.
C9_FlagsKept ==
    rec.pc = "done" =>
      \A f \in LostFiles :
         /\ \A l \in LocsOf(db, f.id) : l.last_verified = NULL
         /\ \A l \in PreLocsOf(f.id) : LocById(l.id).is_primary = l.is_primary
         /\ \E l \in LocsOf(db, f.id) : l.is_primary

\* reconcile has returned for a File with two Locations, one primary and one
\* not, both gone from the disk
C9_Witness ==
    /\ rec.pc = "done"
    /\ \E f \in LostFiles :
          \E a, b \in PreLocsOf(f.id) : a.is_primary /\ ~b.is_primary

\* C10: when reconcile returns, every indexed File with a Location on the
\* disk has a Location that is primary and on the disk.
C10_PrimaryOnDisk ==
    rec.pc = "done" =>
      \A f \in db.files :
         (f.indexed /\ \E l \in LocsOf(db, f.id) : ~Missing(l)) =>
            \E l \in LocsOf(db, f.id) : l.is_primary /\ ~Missing(l)

\* C11: a scan whose candidate list holds a path twice rejects only the
\* repeated candidate: it returns instead of raising, and every candidate
\* path that can be hashed has exactly one Location when it ends.
C11_DuplicateRejectedAlone ==
    \A s \in Slots :
       (ScanEnded(s) /\ ~NoDuplicate(scan[s].cands)) =>
          /\ scan[s].pc = "done"
          /\ \A p \in CandidatesOf(s) :
                disk[p] \in Hashes => Cardinality(LocsAt(p)) = 1

\* the positions of the candidate list that the run met for the first time
\* and could not stat or hash
FailedAt(s) ==
    {i \in 1..Len(scan[s].cands) :
        scan[s].cands[i] \notin scan[s].existing /\ disk[scan[s].cands[i]] \notin Hashes}

\* C12: in a scan whose candidate list holds no path twice, errors counts
\* one per candidate that cannot be stat-ed or hashed, no Location and no
\* File row is created for such a candidate, and the run returns with a
\* Location for every other candidate.
C12_HashFailureSkipsOne ==
    \A s \in Slots :
       (ScanEnded(s) /\ NoDuplicate(scan[s].cands)) =>
          /\ scan[s].pc = "done"
          /\ scan[s].stats.errors = Cardinality(FailedAt(s))
          /\ \A i \in FailedAt(s) : LocsAt(scan[s].cands[i]) = {}
          /\ \A f \in db.files \ scan[s].pre.files :
                \E p \in NewlyScanned(s) : disk[p] = f.file_hash
          /\ \A p \in NewlyScanned(s) : Cardinality(LocsAt(p)) = 1

\* a scan has returned after one candidate could not be hashed, another had
\* vanished since the walk, and a third was recorded
C12_Witness ==
    \E s \in Slots :
       /\ scan[s].pc = "done"
       /\ \E i, j \in FailedAt(s) :
             /\ disk[scan[s].cands[i]] = Unreadable
             /\ disk[scan[s].cands[j]] = NoFile
       /\ NewlyScanned(s) # {}

\* C13: when a scan returns, the Location rows have grown by added, skipped
\* is the number of candidates whose path was a Location already, and the
\* new File rows are as many as the distinct hashes of the added candidates
\* that the catalog did not hold.
C13_StatsMatchRows ==
    \A s \in Slots :
       scan[s].pc = "done" =>
          /\ Cardinality(db.locs) = Cardinality(scan[s].pre.locs) + scan[s].stats.added
          /\ scan[s].stats.skipped =
                Cardinality({i \in 1..Len(scan[s].cands) :
                               scan[s].cands[i] \in {l.path : l \in scan[s].pre.locs}})
          /\ Cardinality(db.files) - Cardinality(scan[s].pre.files) =
                Cardinality({disk[p] : p \in NewlyScanned(s)} \
                            {f.file_hash : f \in scan[s].pre.files})
          /\ scan[s].pre.files \subseteq db.files
          /\ scan[s].pre.locs \subseteq db.locs

\* a rescan has returned with added = 1 for a new path of a known File,
\* which now has two Locations or more, and has skipped the known paths
C13_Witness ==
    \E s \in Slots :
       /\ scan[s].pc = "done"
       /\ scan[s].stats.added = 1
       /\ scan[s].stats.skipped > 0
       /\ db.files = scan[s].pre.files
       /\ \E p \in NewlyScanned(s) : \E l \in LocsAt(p) :
             Cardinality(LocsOf(db, l.file_id)) >= 2

\* the folder rows that start_scan recorded for the roots of run s
FoldersOf(s) == {f \in db.folders : f.path \in RootSet(scan[s].roots)}

\* C14: while a scan runs, the folder row of a submitted root, valid or
\* not, becomes processing only from scanning and becomes active only from
\* processing.
C14_StatusOrder ==
    [][\A s \in Slots :
          scan[s].pc \in {"walk", "begin", "loop"} =>
             \A f \in FoldersOf(s) : \A g \in db'.folders :
                (g.id = f.id /\ g.status # f.status) =>
                   /\ g.status = "processing" => f.status = "scanning"
                   /\ g.status = "active" => f.status = "processing"]_vars

\* C15: when ingestion has raised, every folder row of the scan has status
\* error.
C15_RaisedMarksError ==
    \A s \in Slots :
       scan[s].pc = "raised" => \A f \in FoldersOf(s) : f.status = "error"

\* C16: when a scan has returned, every submitted root, as spelled in the
\* request, has a folder row with status active and last_scanned set.
C16_RecordedRootsActive ==
    \A s \in Slots :
       scan[s].pc = "done" =>
          \A i \in 1..Len(scan[s].roots) :
             \E f \in db.folders :
                /\ f.path = scan[s].roots[i]
                /\ f.status = "active"
                /\ f.last_scanned # NULL

\* the folder rows startup recovery found not active
Resumed(s) == {f \in scan[s].folders0 : f.status # "active"}

\* C17: after a crash during a scan and startup recovery, every file that
\* can be hashed in the tree of a folder that was not active has exactly
\* one Location, no two File rows have the same hash, and every folder is
\* active.
C17_RecoveryCompletesScan ==
    \A s \in Slots :
       (scan[s].pc = "recovered" /\ scan[s].crashed) =>
          /\ \A f \in Resumed(s) : \A p \in Paths :
                (Under(Resolve(f.path), p) /\ disk[p] \in Hashes) =>
                   Cardinality(LocsAt(p)) = 1
          /\ \A h \in Hashes : Cardinality(FilesWithHash(h)) <= 1
          /\ \A f \in db.folders : f.status = "active"

\* C18: startup recovery re-scans exactly the folders that were not
\* active, resumed is their number, and a folder row that was active is
\* the same row afterwards.
C18_RecoveryLeavesActiveAlone ==
    \A s \in Slots :
       scan[s].pc = "recovered" =>
          /\ RootSet(scan[s].roots) = {f.path : f \in Resumed(s)}
          /\ scan[s].recovery.resumed = Cardinality(Resumed(s))
          /\ \A f \in scan[s].folders0 : f.status = "active" => f \in db.folders

\* C19: after a crash during ingestion, the Location rows of the batches
\* that had been flushed are in the catalog.
C19_FlushedBatchesSurvive ==
    \A s \in Slots :
       scan[s].pc = "crashed" => \A p \in scan[s].flushed : LocsAt(p) # {}

\* C20: when a scan has returned, the file_count of each scanned folder is
\* the number of distinct Files with a Location in the tree of that folder.
C20_FileCountInTree ==
    \A s \in Slots :
       scan[s].pc = "done" =>
          \A f \in db.folders :
             f.path \in {Resolve(scan[s].roots[i]) : i \in 1..Len(scan[s].roots)} =>
                f.file_count =
                   Cardinality({l.file_id : l \in {x \in db.locs : Under(f.path, x.path)}})

\* the Files that had Locations and none of them verified when run s began
\* to process its candidates
OrphanedBefore(s) ==
    {f \in scan[s].pre.files :
        /\ \E l \in scan[s].pre.locs : l.file_id = f.id
        /\ \A l \in scan[s].pre.locs : l.file_id = f.id => l.last_verified = NULL}

\* C21: when a scan has returned and one of its candidates holds the
\* content of a File that was orphaned before it, at a new path or at a
\* recorded one, that File has a Location with last_verified set.
C21_ScanEndsOrphanhood ==
    \A s \in Slots :
       scan[s].pc = "done" =>
          \A f \in OrphanedBefore(s) :
             (\E p \in CandidatesOf(s) : disk[p] = f.file_hash) =>
                \E l \in db.locs : l.file_id = f.id /\ l.last_verified # NULL

MetaOf(rows, fid) == {m \in rows.meta : m.file_id = fid}

\* C22: when a scan has returned, every File that was in the catalog before
\* it has the row it had, with its format and audio properties, and the
\* metadata entries it had; the scan has written metadata entries only for
\* the Files it created.
C22_MetadataOnlyForNewFile ==
    \A s \in Slots :
       scan[s].pc = "done" =>
          /\ \A f \in scan[s].pre.files :
                f \in db.files /\ MetaOf(db, f.id) = MetaOf(scan[s].pre, f.id)
          /\ \A f \in db.files \ scan[s].pre.files :
                \E p \in NewlyScanned(s) :
                   /\ f.file_hash = disk[p]
                   /\ f.format = Format(p)
                   /\ {[key |-> m.key, value |-> m.value] : m \in MetaOf(db, f.id)} =
                      {[key |-> k, value |-> extract_audio_metadata(disk, p)[k]] :
                          k \in {x \in MetaKeys : extract_audio_metadata(disk, p)[x] # ""}}

\* a scan has returned after it found, at a path with another suffix, a
\* copy of a File that was in the catalog with metadata entries
C22_Witness ==
    \E s \in Slots :
       /\ scan[s].pc = "done"
       /\ \E f \in scan[s].pre.files : \E p \in NewlyScanned(s) :
             /\ disk[p] = f.file_hash
             /\ Format(p) # f.format
             /\ MetaOf(scan[s].pre, f.id) # {}
             /\ \E l \in LocsAt(p) : l.file_id = f.id

\* what reconcile may not change in a Location
Identity(l) ==
    [id |-> l.id, file_id |-> l.file_id, file_hash |-> l.file_hash, path |-> l.path,
     discovered_at |-> l.discovered_at]

\* C23: when reconcile has returned, the File, metadata and folder rows are
\* the ones it found, the Locations are the same with the same path,
\* file_id and discovered_at, a Location whose path is not on disk is in
\* the catalog with last_verified NULL, and the Locations of Files with
\* indexed = 0 are untouched and not counted in total_locations.
C23_ReconcileKeepsRows ==
    rec.pc = "done" =>
       /\ db.files = rec.pre.files
       /\ db.meta = rec.pre.meta
       /\ db.folders = rec.folders0
       /\ {Identity(l) : l \in db.locs} = {Identity(l) : l \in rec.pre.locs}
       /\ Cardinality(db.locs) = Cardinality(rec.pre.locs)
       /\ \A l \in db.locs :
             (Indexed(db, l.file_id) /\ ~Exists(disk, l.path)) => l.last_verified = NULL
       /\ \A l \in rec.pre.locs : ~Indexed(db, l.file_id) => l \in db.locs
       /\ rec.stats.total_locations =
             Cardinality({l \in rec.pre.locs : Indexed(db, l.file_id)})

\* reconcile has returned after it found a primary Location missing and
\* promoted another Location of the File
C23_Witness ==
    /\ rec.pc = "done"
    /\ \E l \in rec.pre.locs, k \in db.locs :
          /\ k.id = l.id
          /\ l.is_primary /\ l.last_verified # NULL
          /\ ~k.is_primary /\ k.last_verified = NULL
          /\ \E o \in db.locs : o.file_id = l.file_id /\ o.is_primary /\ o.last_verified # NULL

\* C24: in every committed state of the catalog every File row has a
\* Location row, and a deletion of a Location that is refused leaves the
\* catalog as it was.
C24_FileHasLocation ==
    /\ [](\A f \in db.files : LocsOf(db, f.id) # {})
    /\ [][(ops' = ops + 1 /\ api'.op = "delete_location" /\ ~api'.ok) => db' = db]_vars

\* the deletion of the only Location of a File has been refused
C24_Witness ==
    /\ api.op = "delete_location"
    /\ ~api.ok
    /\ \E l \in db.locs : l.id = api.location_id /\ l.file_id = api.file_id
    /\ Cardinality(LocsOf(db, api.file_id)) = 1

C26_BothComplete ==
    /\ writer \in {"none", "rec"} \cup Slots
    /\ rec.pc # "raised"
    /\ \A s \in Slots : scan[s].pc = "raised" => ~NoDuplicate(scan[s].cands)

\* C27: a scan started over the WebSocket whose observer went away while
\* it ran, and whose candidate list holds no path twice, returns: it has
\* gone through every candidate and counted it once, every candidate it met
\* for the first time and could hash has a committed Location, and the
\* folder rows of its roots are active.
C27_ScanOutlivesObserver ==
    \A s \in Slots :
       (ScanEnded(s) /\ scan[s].ws = "closed" /\ NoDuplicate(scan[s].cands)) =>
          /\ scan[s].pc = "done"
          /\ scan[s].idx = Len(scan[s].cands) + 1
          /\ scan[s].stats.added + scan[s].stats.skipped + scan[s].stats.errors
                = Len(scan[s].cands)
          /\ \A p \in NewlyScanned(s) : LocsAt(p) # {}
          /\ \A f \in FoldersOf(s) : f.status = "active"

\* the observer went away during a scan that then added Files, called the
\* progress callback of both phases and returned
C27_Witness ==
    \E s \in Slots :
       /\ scan[s].pc = "done"
       /\ scan[s].ws = "closed"
       /\ scan[s].stats.added >= 2
       /\ \E n, m \in 1..(Len(scan[s].cands) + 1) :
             {<<"scanning", n>>, <<"processing", m>>} \subseteq scan[s].events

\* C29: in a scan that reports progress, the callback is called for the
\* processing phase after every candidate whose position is a multiple of
\* the cadence, whether that candidate was added, skipped or failed.
C29_ProgressCadence ==
    \A s \in Slots :
       (scan[s].pc = "done" /\ scan[s].ws # "none") =>
          \A n \in 1..Len(scan[s].cands) :
             n % ProgressEvery = 0 => <<"processing", n>> \in scan[s].events

\* C30: when a scan returns, added + skipped + errors is the number of its
\* candidates.
C30_CountsAddUp ==
    \A s \in Slots :
       scan[s].pc = "done" =>
          scan[s].stats.added + scan[s].stats.skipped + scan[s].stats.errors
             = Len(scan[s].cands)

Occurrences(seq, p) == Cardinality({i \in 1..Len(seq) : seq[i] = p})

\* the files on disk beneath root whose name ends, in any case, with an
\* extension of the allow-list and that are in no directory below root whose
\* name starts with "."
Beneath(root) ==
    {p \in Paths \cup Fixed :
        /\ IsPrefix(root \o <<Sep>>, p)
        /\ p \in Paths => disk[p] # NoFile
        /\ Lower(p[Len(p)]) \in {".wav", ".mp3", ".flac", ".aiff", ".ogg", ".m4a"}
        /\ ~\E k \in (Len(root) + 2)..(Len(p) - 1) :
               p[k] = "." /\ p[k - 1] = Sep /\ (\E j \in (k + 1)..Len(p) : p[j] = Sep)}

\* C28: the candidate list of a walk holds a path once for every submitted
\* root that is a directory and has the file beneath it with an allow-listed
\* extension, compared without case, outside the hidden directories below
\* that root; a root that does not exist or is a file adds nothing and the
\* roots after it are walked. (Stated of a walk since whose start the
\* filesystem has not changed.)
C28_WalkerReturnsAudioFiles ==
    \A s \in Slots :
       (scan[s].pc = "begin" /\ scan[s].clean) =>
          \A p \in Paths \cup Fixed :
             Occurrences(scan[s].cands, p) =
                Cardinality({i \in 1..Len(scan[s].roots) :
                               /\ scan[s].roots[i] \in {RLib, RSub, RLib2, RHid}
                               /\ p \in Beneath(scan[s].roots[i])})

\* a walk of overlapping roots, after a root that does not exist, has
\* returned a path twice, a file with an upper-case extension, and neither
\* the text file nor the file in the hidden directory
C28_Witness ==
    \E s \in Slots :
       /\ scan[s].pc = "begin"
       /\ scan[s].clean
       /\ scan[s].roots = <<RLib, RNope, RSub, RLib2>>
       /\ Occurrences(scan[s].cands, PC) = 2
       /\ Occurrences(scan[s].cands, PD) = 1
       /\ Occurrences(scan[s].cands, PN) = 0
       /\ Occurrences(scan[s].cands, PH) = 0

\* C31: when reconcile returns, valid_locations + missing_locations is
\* total_locations, missing_locations is the length of missing_details,
\* total_locations is the number of Locations of indexed Files, total_files
\* the number of indexed Files, and orphaned_files is at most total_files.
C31_ReconcileCountsAgree ==
    rec.pc = "done" =>
       /\ rec.stats.valid_locations + rec.stats.missing_locations = rec.stats.total_locations
       /\ rec.stats.missing_locations = Len(rec.stats.missing_details)
       /\ rec.stats.total_locations
             = Cardinality({l \in db.locs : \E f \in db.files : f.id = l.file_id /\ f.indexed})
       /\ rec.stats.total_files = Cardinality({f \in db.files : f.indexed})
       /\ rec.stats.orphaned_files <= rec.stats.total_files

\* a reconcile has returned that found Locations on disk and Locations
\* missing, and a File without any verified Location
C31_Witness ==
    /\ rec.pc = "done"
    /\ rec.stats.valid_locations > 0
    /\ rec.stats.missing_locations > 0
    /\ rec.stats.orphaned_files > 0
    /\ rec.stats.orphaned_files < rec.stats.total_files

\* C32 as it is stated: when the process has died during a reconcile, before
\* or after its commit, the catalog is the one the reconcile started from.
C32_CrashRestoresCatalog ==
    rec.pc \in {"crashed", "committed"} => Rows(db) = rec.pre

\* C32: when the process has died during a reconcile before its commit,
\* the catalog is the one the reconcile started from; when it has died after
\* the commit and before the return, every Location of an indexed File has
\* been processed (last_verified is NULL exactly when the path is missing,
\* and is otherwise later than before); in both cases no File that had a
\* primary Location has none now.
C32_CrashLeavesNoPartialUpdate ==
    /\ rec.pc = "crashed" => Rows(db) = rec.pre
    /\ rec.pc = "committed" =>
          \A l \in db.locs : \A o \in rec.pre.locs :
             o.id = l.id =>
                /\ (l.last_verified = NULL) = ~Exists(disk, l.path)
                /\ l.last_verified # NULL => l.last_verified > o.last_verified
    /\ rec.pc \in {"crashed", "committed"} =>
          \A o \in rec.pre.locs :
             o.is_primary => \E l \in db.locs : l.file_id = o.file_id /\ l.is_primary

\* the process has died before the commit of a reconcile that had already
\* marked a Location missing and promoted another
C32_Witness ==
    /\ rec.pc = "crashed"
    /\ \E i \in 1..Len(rec.stats.missing_details) :
          /\ rec.stats.missing_details[i].was_primary
          /\ \E l \in db.locs :
                /\ l.file_id = rec.stats.missing_details[i].file_id
                /\ l.id # rec.stats.missing_details[i].location_id
                /\ Exists(disk, l.path)

\* C33: a step of a scan leaves every Location row and every File row of
\* the catalog as it is (it only adds rows), and changes no folder row other
\* than those of the roots of a scan that is running.
C33_ScanOnlyInserts ==
    [][/\ db.locs \subseteq db'.locs
       /\ db.files \subseteq db'.files
       /\ \A f \in db.folders :
             \/ f \in db'.folders
             \/ /\ \E g \in db'.folders : g.id = f.id /\ g.path = f.path
                /\ \E s \in Slots :
                      /\ scan[s].pc \in {"walk", "begin", "loop"}
                      /\ \E i \in 1..Len(scan[s].roots) :
                            f.path \in {scan[s].roots[i], Resolve(scan[s].roots[i])}]_vars

\* a scan has returned that added a Location to a File that had one, in a
\* catalog that holds the folder row of a root it was not given
C33_Witness ==
    \E s \in Slots :
       /\ scan[s].pc = "done"
       /\ scan[s].stats.added > 0
       /\ \E o \in scan[s].pre.locs : \E l \in db.locs \ scan[s].pre.locs :
             l.file_id = o.file_id
       /\ \E f \in db.folders : f.path \notin RootSet(scan[s].roots)

\* C34: when a scan has returned with errors = 0, the Location of every
\* candidate path that holds a readable file belongs to the File whose
\* file_hash is the digest of the bytes now at that path.
C34_LocationFollowsContent ==
    \A s \in Slots :
       (scan[s].pc = "done" /\ scan[s].stats.errors = 0) =>
          \A p \in CandidatesOf(s) :
             disk[p] \in Hashes =>
                /\ LocsAt(p) # {}
                /\ \A l \in LocsAt(p) :
                      \E f \in db.files : f.id = l.file_id /\ f.file_hash = disk[p]

\* C35: a reconcile that follows a reconcile with no change of the
\* filesystem or the catalog in between leaves every Location with the
\* is_primary flag and the missing or verified status it had, and returns the
\* valid_locations, missing_locations and orphaned_files of the first run.
C35_ReconcileIdempotent ==
    (rec.pc = "done" /\ rec.again) =>
       /\ \A l \in db.locs : \E o \in rec.pre.locs :
             /\ o.id = l.id
             /\ o.is_primary = l.is_primary
             /\ (o.last_verified = NULL) = (l.last_verified = NULL)
       /\ rec.stats.valid_locations = rec.prev.valid_locations
       /\ rec.stats.missing_locations = rec.prev.missing_locations
       /\ rec.stats.orphaned_files = rec.prev.orphaned_files

\* the second of two reconciles in a row has returned, over a File with a
\* missing Location that has lost its primary flag and a Location on disk
C35_Witness ==
    /\ rec.pc = "done"
    /\ rec.again
    /\ \E l, m \in db.locs :
          /\ l.file_id = m.file_id
          /\ l.last_verified = NULL /\ ~l.is_primary
          /\ m.last_verified # NULL /\ m.is_primary

\* C36: after set_primary_location has succeeded, the requested Location
\* is the only Location of the File with is_primary = TRUE; a call that names
\* a Location that is not one of the File fails and leaves the catalog as it
\* was.
C36_OnePrimaryAfterSet ==
    /\ [](api.op = "set_primary" /\ api.ok =>
            {l.id : l \in {x \in LocsOf(db, api.file_id) : x.is_primary}} = {api.location_id})
    /\ [][(/\ ops' = ops + 1
            /\ api'.op = "set_primary"
            /\ ~\E l \in db.locs : l.id = api'.location_id /\ l.file_id = api'.file_id)
           => (~api'.ok /\ db' = db)]_vars

\* set_primary_location has succeeded on a File with three Locations, in a
\* catalog of Locations that ingestion has made primary, all of them
C36_Witness ==
    /\ api.op = "set_primary"
    /\ api.ok
    /\ Cardinality(LocsOf(db, api.file_id)) = 3
    /\ Cardinality({l \in db.locs : l.is_primary}) = 1

Without(seq, x) == SelectSeq(seq, LAMBDA y : y # x)
Contains(seq, x) == \E i \in 1..Len(seq) : seq[i] = x

\* C38 as it is stated: the manager never holds more than max_sessions
\* sessions; a call with a new session id that finds max_sessions sessions
\* closes the least recently used one and no other; a call with the id of a
\* session the manager holds moves it to the most recently used end and
\* neither creates nor closes a session.
C38_LruOnly ==
    /\ Len(demo.sessions) <= MaxSessions
    /\ (/\ demo.call.session_id # 0
        /\ ~Contains(demo.call.before, demo.call.session_id)
        /\ Len(demo.call.before) = MaxSessions)
       => /\ Ids(demo.sessions) = Append(Tail(demo.call.before), demo.call.session_id)
          /\ demo.call.cleaned \cup demo.call.evicted = {Head(demo.call.before)}
    /\ (demo.call.session_id # 0 /\ Contains(demo.call.before, demo.call.session_id))
       => /\ Ids(demo.sessions)
                = Append(Without(demo.call.before, demo.call.session_id), demo.call.session_id)
          /\ ~demo.call.created
          /\ demo.call.cleaned \cup demo.call.evicted = {}

\* C38: the manager never holds more than max_sessions sessions. A call
\* first closes, when the periodic cleanup is due, the sessions idle for
\* longer than the timeout. With a new session id, or the id of a session
\* that has just been closed as stale, it creates a session, after closing
\* the least recently used of the remaining ones, and no other, when
\* max_sessions remain; with the id of a remaining session it moves that
\* session to the most recently used end and neither creates nor evicts one.
C38_LruAfterCleanup ==
    LET c == demo.call
        kept == SelectSeq(c.before, LAMBDA x : x \notin c.cleaned)
    IN  /\ Len(demo.sessions) <= MaxSessions
        /\ (c.session_id # 0 /\ ~Contains(kept, c.session_id)) =>
              /\ c.created
              /\ IF Len(kept) = MaxSessions
                 THEN /\ Ids(demo.sessions) = Append(Tail(kept), c.session_id)
                      /\ c.evicted = {Head(kept)}
                 ELSE /\ Ids(demo.sessions) = Append(kept, c.session_id)
                      /\ c.evicted = {}
        /\ (c.session_id # 0 /\ Contains(kept, c.session_id)) =>
              /\ Ids(demo.sessions) = Append(Without(kept, c.session_id), c.session_id)
              /\ ~c.created
              /\ c.evicted = {}

\* a new session id has arrived at a full manager, whose least recently
\* used session was closed, after a call that moved a session to the most
\* recently used end
C38_Witness ==
    /\ demo.call.created
    /\ Len(demo.call.before) = MaxSessions
    /\ demo.call.cleaned = {}
    /\ demo.call.evicted = {Head(demo.call.before)}
    /\ \E i, j \in 1..Len(demo.sessions) :
          i < j /\ demo.sessions[i].last_access > 0
                /\ demo.sessions[i].last_access < demo.sessions[j].last_access

====
